---- MODULE Spec2Model ----
(***************************************************************************)
(* Intelligent Pesticide Sprinkler System: the spray decision and control *)
(* core of backend/app.py, backend/spray_logic.py and backend/model.py.   *)
(*                                                                         *)
(* Percentages (infection level, soil moisture, temperature, humidity)    *)
(* are integers: every threshold of the code is an integer and the code   *)
(* only compares values with thresholds, so an integer grid that holds    *)
(* each threshold and both of its neighbours exercises every branch.      *)
(***************************************************************************)
EXTENDS Integers, FiniteSets, Sequences, TLC

(***************************************************************************)
(* JSON / Python values.  A value is a record [k, v]: a number, a         *)
(* non-numeric string, null (None), or the marker of a key that the JSON  *)
(* object does not hold.                                                   *)
(***************************************************************************)
Num(n) == [k |-> "num", v |-> n]
Str == [k |-> "str", v |-> 0]
Null == [k |-> "null", v |-> 0]
Absent == [k |-> "absent", v |-> 0]

IsNum(x) == x.k = "num"

\* dict.get(key, default): the default is used only when the key is missing
Get(d, key, default) == IF d[key] = Absent THEN default ELSE d[key]

\* dict.update(w) / d[key] = value: the keys of w are set, the others kept
DictUpdate(d, w) == [key \in DOMAIN d |-> IF key \in DOMAIN w THEN w[key] ELSE d[key]]

(***************************************************************************)
(* Bounds of the model.                                                    *)
(***************************************************************************)
MaxTime == 2

\* direct calls take infection levels from -LevelMargin to 100 + LevelMargin
\* and soil moistures from MoistureLo to MoistureHi
LevelMargin == 3
MoistureLo == 35
MoistureHi == 75

(***************************************************************************)
(* spray_logic.py                                                          *)
(***************************************************************************)
calculate_spray_duration(infection_level) ==
    IF infection_level <= 0 THEN 0
    ELSE IF infection_level < 25 THEN 3
    ELSE IF infection_level < 50 THEN 5
    ELSE IF infection_level < 75 THEN 8
    ELSE 10

SOIL_MOISTURE_MIN == 40
SOIL_MOISTURE_MAX == 70

\* spray_logic.py line 78
logic_moisture_safe(soil_moisture) ==
    SOIL_MOISTURE_MIN <= soil_moisture /\ soil_moisture <= SOIL_MOISTURE_MAX

\* the no-infection check made before the moisture check
calculate_spray_with_safety_infection_first(infection_level, soil_moisture) ==
    LET duration == calculate_spray_duration(infection_level) IN
    IF duration = 0
    THEN [spray_allowed |-> FALSE, duration |-> 0,
          reason |-> "No infection detected - no spray needed"]
    ELSE IF ~logic_moisture_safe(soil_moisture)
    THEN [spray_allowed |-> FALSE, duration |-> 0,
          reason |-> "Soil moisture outside safe range (40-70%)"]
    ELSE [spray_allowed |-> TRUE, duration |-> duration,
          reason |-> "Infection level - spraying"]

calculate_spray_with_safety(infection_level, soil_moisture) ==
    IF ~logic_moisture_safe(soil_moisture)
    THEN [spray_allowed |-> FALSE, duration |-> 0,
          reason |-> "Soil moisture outside safe range (40-70%)"]
    ELSE LET duration == calculate_spray_duration(infection_level) IN
         IF duration = 0
         THEN [spray_allowed |-> FALSE, duration |-> 0,
               reason |-> "No infection detected - no spray needed"]
         ELSE [spray_allowed |-> TRUE, duration |-> duration,
               reason |-> "Infection level - spraying"]

(***************************************************************************)
(* model.py: DiseaseSegmentationModel                                      *)
(***************************************************************************)
DISEASE_DB ==
    [wheat_brown_rust |->
        [name |-> "Wheat Brown Rust", pesticide |-> "Propiconazole 25% EC",
         dosage |-> "1ml per liter of water",
         description |-> "Fungal disease causing brown pustules on leaves"],
     tomato_early_blight |->
        [name |-> "Tomato Early Blight", pesticide |-> "Mancozeb 75% WP",
         dosage |-> "2g per liter of water",
         description |-> "Alternaria solani causing concentric rings on leaves"],
     rice_blast |->
        [name |-> "Rice Blast", pesticide |-> "Tricyclazole 75% WP",
         dosage |-> "1g per liter of water",
         description |-> "Pyricularia oryzae causing diamond-shaped lesions"],
     potato_late_blight |->
        [name |-> "Potato Late Blight", pesticide |-> "Metalaxyl 8% + Mancozeb 64% WP",
         dosage |-> "2.5g per liter of water",
         description |-> "Phytophthora infestans causing dark lesions"],
     healthy |->
        [name |-> "Healthy Plant", pesticide |-> "None required",
         dosage |-> "N/A", description |-> "No disease detected"]]

\* the labels on the boundaries of the duration bands
get_severity_on_duration_bands(infection_level) ==
    IF infection_level < 25 THEN "Low"
    ELSE IF infection_level < 50 THEN "Moderate"
    ELSE IF infection_level < 75 THEN "High"
    ELSE "Severe"

get_severity(infection_level) ==
    IF infection_level < 10 THEN "Low"
    ELSE IF infection_level < 30 THEN "Moderate"
    ELSE IF infection_level < 50 THEN "High"
    ELSE "Severe"

\* the boundaries resolved to the lower band
model_calculate_spray_duration_lower(infection_level) ==
    IF infection_level <= 0 THEN 0
    ELSE IF infection_level <= 25 THEN 3
    ELSE IF infection_level <= 50 THEN 5
    ELSE IF infection_level <= 75 THEN 8
    ELSE 10

model_calculate_spray_duration(infection_level) ==
    IF infection_level <= 0 THEN 0
    ELSE IF infection_level < 25 THEN 3
    ELSE IF infection_level < 50 THEN 5
    ELSE IF infection_level < 75 THEN 8
    ELSE 10

\* spraying recommended whenever the duration is not zero
get_recommendation_by_duration(disease_key, infection_level) ==
    LET disease_info == IF disease_key \in DOMAIN DISEASE_DB
                        THEN DISEASE_DB[disease_key]
                        ELSE DISEASE_DB["healthy"]
    IN [disease_name |-> disease_info.name,
        description |-> disease_info.description,
        infection_level |-> infection_level,
        severity |-> get_severity(infection_level),
        pesticide |-> disease_info.pesticide,
        dosage |-> disease_info.dosage,
        spray_recommended |-> model_calculate_spray_duration(infection_level) > 0,
        spray_duration |-> model_calculate_spray_duration(infection_level)]

\* DISEASE_DB[disease_key] in place of .get: a key the table does not hold
\* raises KeyError and no entry is reported
get_recommendation_no_fallback(disease_key, infection_level) ==
    LET disease_info == IF disease_key \in DOMAIN DISEASE_DB
                        THEN DISEASE_DB[disease_key]
                        ELSE [name |-> "KeyError", pesticide |-> "KeyError",
                              dosage |-> "KeyError", description |-> "KeyError"]
    IN [disease_name |-> disease_info.name,
        description |-> disease_info.description,
        infection_level |-> infection_level,
        severity |-> get_severity(infection_level),
        pesticide |-> disease_info.pesticide,
        dosage |-> disease_info.dosage,
        spray_recommended |-> infection_level > 15,
        spray_duration |-> model_calculate_spray_duration(infection_level)]

get_recommendation(disease_key, infection_level) ==
    LET disease_info == IF disease_key \in DOMAIN DISEASE_DB
                        THEN DISEASE_DB[disease_key]
                        ELSE DISEASE_DB["healthy"]
    IN [disease_name |-> disease_info.name,
        description |-> disease_info.description,
        infection_level |-> infection_level,
        severity |-> get_severity(infection_level),
        pesticide |-> disease_info.pesticide,
        dosage |-> disease_info.dosage,
        spray_recommended |-> infection_level > 15,
        spray_duration |-> model_calculate_spray_duration(infection_level)]

(***************************************************************************)
(* app.py: the two global dictionaries, the clock the handlers read with  *)
(* datetime.now(), and the request being served with its response.        *)
(* call holds a direct call of one of the functions: its arguments and    *)
(* its result.  threads holds the handler threads of the threaded server  *)
(* (app.run, line 303): where each is in its handler, its request, the    *)
(* values it has read, and its response.                                   *)
(***************************************************************************)
VARIABLES latest_sensor_data, spray_status, now, request, response, call, threads

\* the lower end of the range excluded
control_moisture_safe_open(soil_moisture) == 40 < soil_moisture /\ soil_moisture <= 70

\* app.py line 235: moisture_safe = 40 <= soil_moisture <= 70
control_moisture_safe(soil_moisture) == 40 <= soil_moisture /\ soil_moisture <= 70

\* the upper end of the range excluded
analyze_moisture_safe_open(soil_moisture) == 40 <= soil_moisture /\ soil_moisture < 70

\* app.py line 123: moisture_safe = 40 <= soil_moisture <= 70
analyze_moisture_safe(soil_moisture) == 40 <= soil_moisture /\ soil_moisture <= 70

\* str.upper() on the command tokens of the model
Upper(s) ==
    CASE s = "start" -> "START"
      [] s = "stop" -> "STOP"
      [] s = "pause" -> "PAUSE"
      [] OTHER -> s

\* the markers of a command key that is missing, and of one that holds a JSON number
CmdAbsent == "<absent>"
CmdNumber == "<number>"

InitSensorData ==
    [temperature |-> Num(25), humidity |-> Num(60), soil_moisture |-> Num(55),
     timestamp |-> 0]

InitSprayStatus ==
    [is_spraying |-> FALSE, last_command |-> "None", last_spray_time |-> Null,
     spray_duration |-> Absent]

NoRequest == [endpoint |-> "none"]
NoResponse == [code |-> 0]
NoCall == [fn |-> "none"]

\* two handler threads: each race is between two requests
Threads == {"t1", "t2"}
NoLocal == << >>
IdleThread == [pc |-> "idle", req |-> NoRequest, local |-> NoLocal, resp |-> NoResponse]


(***************************************************************************)
(* control_spray, app.py lines 208-279.  The handler reads the stored     *)
(* soil moisture (line 229, the default argument of data.get is always    *)
(* evaluated), decides, and writes spray_status with one dictionary       *)
(* operation: line 239, lines 249-254 or lines 266-269.                   *)
(*   data           the JSON body: is_object is FALSE when get_json()     *)
(*                  raises or returns None                                 *)
(*   live_moisture  latest_sensor_data.get('soil_moisture', 50), line 229 *)
(*   t              datetime.now(), line 252                               *)
(* The result holds the keys written to spray_status and the response.    *)
(***************************************************************************)
NoWrite == << >>

\* a rejection that also switches the pump off
rejected_write_stops == [is_spraying |-> FALSE, last_command |-> "REJECTED"]

\* line 239
rejected_write == [last_command |-> "REJECTED"]

\* a START that sets the flags and records neither the time nor the duration
start_write_flags_only(duration, t) == [is_spraying |-> TRUE, last_command |-> "START"]

\* a START that records the duration and no start time
start_write_without_time(duration, t) ==
    [is_spraying |-> TRUE, last_command |-> "START", spray_duration |-> duration]

\* lines 249-254
start_write(duration, t) ==
    [is_spraying |-> TRUE, last_command |-> "START", last_spray_time |-> Num(t),
     spray_duration |-> duration]

\* a STOP that records the command and leaves the pump as it is
stop_write_keeps_pump == [last_command |-> "STOP"]

\* lines 266-269
stop_write == [is_spraying |-> FALSE, last_command |-> "STOP"]

ServerError == [code |-> 500, error |-> "exception"]

\* an invalid command recorded in the status as a rejection
control_spray_effect_records_invalid(data, live_moisture, t) ==
    IF ~data.is_object \/ data.command = CmdNumber
    THEN [write |-> NoWrite, resp |-> ServerError]
    ELSE
    LET command == Upper(IF data.command = CmdAbsent THEN "" ELSE data.command)
        duration == Get(data, "duration", Num(5))
        soil_moisture == Get(data, "soil_moisture", live_moisture)
    IN  IF command \notin {"START", "STOP"}
        THEN [write |-> rejected_write,
              resp |-> [code |-> 400, error |-> "Invalid command. Use START or STOP"]]
        ELSE IF ~IsNum(soil_moisture)
        THEN [write |-> NoWrite, resp |-> ServerError]
        ELSE IF command = "START"
        THEN IF ~control_moisture_safe(soil_moisture.v)
             THEN [write |-> rejected_write,
                   resp |-> [code |-> 403, success |-> FALSE, command |-> "REJECTED",
                             spray_allowed |-> FALSE,
                             reason |-> "outside safe range (40-70%). Cannot spray.",
                             soil_moisture |-> soil_moisture,
                             moisture_safe |-> FALSE]]
             ELSE [write |-> start_write(duration, t),
                   resp |-> [code |-> 200, success |-> TRUE, command |-> "START_SPRAY",
                             spray_allowed |-> TRUE, duration |-> duration,
                             soil_moisture |-> soil_moisture]]
        ELSE [write |-> stop_write,
              resp |-> [code |-> 200, success |-> TRUE, command |-> "STOP_SPRAY",
                        spray_allowed |-> TRUE]]

\* the stored soil moisture checked whenever it is a number, the request's otherwise
control_spray_effect_stored_first(data, live_moisture, t) ==
    IF ~data.is_object \/ data.command = CmdNumber
    THEN [write |-> NoWrite, resp |-> ServerError]
    ELSE
    LET command == Upper(IF data.command = CmdAbsent THEN "" ELSE data.command)
        duration == Get(data, "duration", Num(5))
        soil_moisture == IF IsNum(live_moisture) THEN live_moisture
                         ELSE Get(data, "soil_moisture", live_moisture)
    IN  IF command \notin {"START", "STOP"}
        THEN [write |-> NoWrite,
              resp |-> [code |-> 400, error |-> "Invalid command. Use START or STOP"]]
        ELSE IF ~IsNum(soil_moisture)
        THEN [write |-> NoWrite, resp |-> ServerError]
        ELSE IF command = "START"
        THEN IF ~control_moisture_safe(soil_moisture.v)
             THEN [write |-> rejected_write,
                   resp |-> [code |-> 403, success |-> FALSE, command |-> "REJECTED",
                             spray_allowed |-> FALSE,
                             reason |-> "outside safe range (40-70%). Cannot spray.",
                             soil_moisture |-> soil_moisture,
                             moisture_safe |-> FALSE]]
             ELSE [write |-> start_write(duration, t),
                   resp |-> [code |-> 200, success |-> TRUE, command |-> "START_SPRAY",
                             spray_allowed |-> TRUE, duration |-> duration,
                             soil_moisture |-> soil_moisture]]
        ELSE [write |-> stop_write,
              resp |-> [code |-> 200, success |-> TRUE, command |-> "STOP_SPRAY",
                        spray_allowed |-> TRUE]]

control_spray_effect(data, live_moisture, t) ==
    IF ~data.is_object \/ data.command = CmdNumber
    THEN [write |-> NoWrite, resp |-> ServerError]
    ELSE
    LET command == Upper(IF data.command = CmdAbsent THEN "" ELSE data.command)
        duration == Get(data, "duration", Num(5))
        soil_moisture == Get(data, "soil_moisture", live_moisture)
    IN  IF command \notin {"START", "STOP"}
        THEN [write |-> NoWrite,
              resp |-> [code |-> 400, error |-> "Invalid command. Use START or STOP"]]
        ELSE IF ~IsNum(soil_moisture)
        THEN [write |-> NoWrite, resp |-> ServerError]
        ELSE IF command = "START"
        THEN IF ~control_moisture_safe(soil_moisture.v)
             THEN [write |-> rejected_write,
                   resp |-> [code |-> 403, success |-> FALSE, command |-> "REJECTED",
                             spray_allowed |-> FALSE,
                             reason |-> "outside safe range (40-70%). Cannot spray.",
                             soil_moisture |-> soil_moisture,
                             moisture_safe |-> FALSE]]
             ELSE [write |-> start_write(duration, t),
                   resp |-> [code |-> 200, success |-> TRUE, command |-> "START_SPRAY",
                             spray_allowed |-> TRUE, duration |-> duration,
                             soil_moisture |-> soil_moisture]]
        ELSE [write |-> stop_write,
              resp |-> [code |-> 200, success |-> TRUE, command |-> "STOP_SPRAY",
                        spray_allowed |-> TRUE]]

(***************************************************************************)
(* update_sensors, app.py lines 176-205.  The argument of update() is     *)
(* built first, reading the stored value of each field as the default of  *)
(* data.get (lines 192-194); update() then writes all four keys.          *)
(***************************************************************************)
\* data.get(key) without the stored value as default: a missing field becomes None
update_sensors_write_no_default(data, old, t) ==
    IF ~data.is_object THEN NoWrite
    ELSE [temperature |-> Get(data, "temperature", Null),
          humidity |-> Get(data, "humidity", Null),
          soil_moisture |-> Get(data, "soil_moisture", Null),
          timestamp |-> t]

update_sensors_write(data, old, t) ==
    IF ~data.is_object THEN NoWrite
    ELSE [temperature |-> Get(data, "temperature", old.temperature),
          humidity |-> Get(data, "humidity", old.humidity),
          soil_moisture |-> Get(data, "soil_moisture", old.soil_moisture),
          timestamp |-> t]

\* lines 198-202: the response holds the dictionary as it is when serialised
update_sensors_response(data, stored) ==
    IF ~data.is_object THEN ServerError
    ELSE [code |-> 200, success |-> TRUE, message |-> "Sensor data updated",
          data |-> stored]

\* get_sensors, lines 167-173
get_sensors_response(stored) == [code |-> 200, success |-> TRUE, data |-> stored]

\* get_spray_status, lines 282-288
get_spray_status_response(status) ==
    [code |-> 200, success |-> TRUE, spray_status |-> status]

(***************************************************************************)
(* analyze_image, app.py lines 64-164.  The prediction of the model (the  *)
(* disease key and the infection level of the mask) is an input; saving   *)
(* the image and the confidence score are left out.                       *)
(*   form           has_image: an image was decoded (lines 87-98);        *)
(*                  soil_moisture: the form field, a text float() parses  *)
(*                  (Num) or rejects (Str), or Absent                      *)
(*   live_moisture  latest_sensor_data.get('soil_moisture', 50), line 104 *)
(***************************************************************************)
analyze_image_response(form, live_moisture, disease_key, infection_level, t) ==
    IF ~form.has_image
    THEN [code |-> 400, error |-> "No image provided"]
    ELSE
    LET soil_moisture == IF form.soil_moisture # Absent
                         THEN form.soil_moisture
                         ELSE live_moisture
        recommendation == get_recommendation(disease_key, infection_level)
    IN  IF ~IsNum(soil_moisture)
        THEN ServerError
        ELSE
        LET moisture_safe == analyze_moisture_safe(soil_moisture.v)
        IN  [code |-> 200, success |-> TRUE, timestamp |-> t,
             disease_detected |-> disease_key # "healthy",
             disease_name |-> recommendation.disease_name,
             disease_description |-> recommendation.description,
             infection_level |-> infection_level,
             severity |-> recommendation.severity,
             pesticide |-> recommendation.pesticide,
             dosage |-> recommendation.dosage,
             spray_recommended |-> recommendation.spray_recommended /\ moisture_safe,
             spray_duration |-> recommendation.spray_duration,
             spray_allowed |-> moisture_safe,
             soil_moisture |-> soil_moisture,
             moisture_safe |-> moisture_safe,
             alert_message |->
                 IF infection_level > 15
                 THEN IF ~moisture_safe
                      THEN "DISEASE ALERT / WARNING: Spraying NOT recommended."
                      ELSE "DISEASE ALERT / Spraying recommended."
                 ELSE "Plant appears healthy."]

(***************************************************************************)
(* The requests of the model.                                              *)
(***************************************************************************)
CommandTokens == {"START", "STOP", "start", "PAUSE", CmdAbsent, CmdNumber}
\* durations in ticks of the clock: 1 elapses within MaxTime
DurationInputs == {Absent, Num(1), Num(10), Str, Null}
MoistureInputs == {Absent, Num(39), Num(40), Num(70), Num(71), Str}
TemperatureInputs == {Absent, Num(30)}
HumidityInputs == {Absent, Num(110)}

ControlBodies ==
    [is_object : {TRUE}, command : CommandTokens, duration : DurationInputs,
     soil_moisture : MoistureInputs \cup {Null}]
    \cup {[is_object |-> FALSE, command |-> CmdAbsent, duration |-> Absent,
           soil_moisture |-> Absent]}

AnalyzeForms ==
    [has_image : BOOLEAN, soil_moisture : {Absent, Num(55), Num(80), Str}]

\* _classify_disease picks any key of DISEASE_DB but the last one, 'healthy'
PredictedKeys == {"wheat_brown_rust", "rice_blast"}
PredictedLevels == {0, 15, 16, 85}

SensorBodies ==
    [is_object : {TRUE}, temperature : TemperatureInputs, humidity : HumidityInputs,
     soil_moisture : MoistureInputs]
    \cup {[is_object |-> FALSE, temperature |-> Absent, humidity |-> Absent,
           soil_moisture |-> Absent]}

(***************************************************************************)
(* Serial processing: each request is served to its end, and its response *)
(* sent, before the next one is taken.                                     *)
(***************************************************************************)
Init ==
    /\ latest_sensor_data = InitSensorData
    /\ spray_status = InitSprayStatus
    /\ now = 0
    /\ request = NoRequest
    /\ response = NoResponse
    /\ call = NoCall
    /\ threads = [t \in Threads |-> IdleThread]

\* the pump switched off when the recorded duration has passed
Tick_ends_spray ==
    /\ request = NoRequest
    /\ now < MaxTime
    /\ now' = now + 1
    /\ spray_status' =
           IF /\ spray_status.is_spraying
              /\ IsNum(spray_status.spray_duration)
              /\ IsNum(spray_status.last_spray_time)
              /\ now' - spray_status.last_spray_time.v >= spray_status.spray_duration.v
           THEN [spray_status EXCEPT !.is_spraying = FALSE]
           ELSE spray_status
    /\ UNCHANGED <<latest_sensor_data, request, response, call, threads>>

\* time passes
Tick ==
    /\ request = NoRequest
    /\ now < MaxTime
    /\ now' = now + 1
    /\ UNCHANGED <<latest_sensor_data, spray_status, request, response, call, threads>>

\* a status whose last_command is REJECTED refuses every command until restart
control_spray_locked_by_rejection ==
    /\ request = NoRequest
    /\ \E data \in ControlBodies :
        LET e == IF spray_status.last_command = "REJECTED"
                 THEN [write |-> NoWrite,
                       resp |-> [code |-> 403, success |-> FALSE,
                                 command |-> "REJECTED"]]
                 ELSE control_spray_effect(
                          data, Get(latest_sensor_data, "soil_moisture", Num(50)), now)
        IN  /\ spray_status' = DictUpdate(spray_status, e.write)
            /\ request' = [endpoint |-> "control_spray", data |-> data,
                           prior |-> spray_status]
            /\ response' = e.resp
            /\ UNCHANGED <<latest_sensor_data, now, call, threads>>

\* the request being served keeps, as prior, the status the command found
control_spray ==
    /\ request = NoRequest
    /\ \E data \in ControlBodies :
        LET e == control_spray_effect(
                     data, Get(latest_sensor_data, "soil_moisture", Num(50)), now)
        IN  /\ spray_status' = DictUpdate(spray_status, e.write)
            /\ request' = [endpoint |-> "control_spray", data |-> data,
                           prior |-> spray_status]
            /\ response' = e.resp
            /\ UNCHANGED <<latest_sensor_data, now, call, threads>>

\* an update that also switches the pump off when it stores a soil moisture
\* outside the range
update_sensors_stops_pump ==
    /\ request = NoRequest
    /\ \E data \in SensorBodies :
        /\ latest_sensor_data' =
               DictUpdate(latest_sensor_data,
                          update_sensors_write(data, latest_sensor_data, now))
        /\ spray_status' =
               IF /\ IsNum(latest_sensor_data'.soil_moisture)
                  /\ ~control_moisture_safe(latest_sensor_data'.soil_moisture.v)
               THEN DictUpdate(spray_status, [is_spraying |-> FALSE])
               ELSE spray_status
        /\ request' = [endpoint |-> "update_sensors", data |-> data]
        /\ response' = update_sensors_response(data, latest_sensor_data')
        /\ UNCHANGED <<now, call, threads>>

update_sensors ==
    /\ request = NoRequest
    /\ \E data \in SensorBodies :
        /\ latest_sensor_data' =
               DictUpdate(latest_sensor_data,
                          update_sensors_write(data, latest_sensor_data, now))
        /\ request' = [endpoint |-> "update_sensors", data |-> data]
        /\ response' = update_sensors_response(data, latest_sensor_data')
        /\ UNCHANGED <<spray_status, now, call, threads>>

get_sensors ==
    /\ request = NoRequest
    /\ request' = [endpoint |-> "get_sensors"]
    /\ response' = get_sensors_response(latest_sensor_data)
    /\ UNCHANGED <<latest_sensor_data, spray_status, now, call, threads>>

get_spray_status ==
    /\ request = NoRequest
    /\ request' = [endpoint |-> "get_spray_status"]
    /\ response' = get_spray_status_response(spray_status)
    /\ UNCHANGED <<latest_sensor_data, spray_status, now, call, threads>>

analyze_image ==
    /\ request = NoRequest
    /\ \E form \in AnalyzeForms, disease_key \in PredictedKeys,
          infection_level \in PredictedLevels :
        /\ request' = [endpoint |-> "analyze_image", form |-> form,
                       disease_key |-> disease_key,
                       infection_level |-> infection_level]
        /\ response' = analyze_image_response(
                           form, Get(latest_sensor_data, "soil_moisture", Num(50)),
                           disease_key, infection_level, now)
    /\ UNCHANGED <<latest_sensor_data, spray_status, now, call, threads>>

\* the response is sent and the server takes the next request
Reply ==
    /\ request # NoRequest
    /\ request' = NoRequest
    /\ response' = NoResponse
    /\ UNCHANGED <<latest_sensor_data, spray_status, now, call, threads>>

vars == <<latest_sensor_data, spray_status, now, request, response, call, threads>>

Next ==
    \/ Tick
    \/ control_spray
    \/ update_sensors
    \/ get_sensors
    \/ get_spray_status
    \/ analyze_image
    \/ Reply

Spec == Init /\ [][Next]_vars


(***************************************************************************)
(* Properties of the serial specification.                                 *)
(***************************************************************************)
\* the tokens that are START, or STOP, after case normalisation
StartTokens == {"START", "start"}
StopTokens == {"STOP", "stop"}

\* this step serves a request of the endpoint
Serves(endpoint) == request = NoRequest /\ request'.endpoint = endpoint

\* the request being served is a control_spray command with one of the tokens
Commanded(tokens) ==
    /\ request.endpoint = "control_spray"
    /\ request.data.is_object
    /\ request.data.command \in tokens

\* the soil moisture a command resolves: the request's, else the stored one
ResolvedMoisture(data, stored) ==
    IF data.soil_moisture # Absent THEN data.soil_moisture ELSE stored.soil_moisture

InRange(m) == 40 <= m /\ m <= 70

\* C1: a START whose resolved soil moisture is numeric and outside 40..70 leaves
\* is_spraying, the recorded duration and the last spray time as they were and
\* sets last_command to REJECTED.
C1_RejectedStartKeepsState ==
    [][ (/\ Serves("control_spray")
         /\ request'.data.is_object
         /\ request'.data.command \in StartTokens
         /\ LET m == ResolvedMoisture(request'.data, latest_sensor_data)
            IN  IsNum(m) /\ (m.v < 40 \/ m.v > 70))
        => /\ spray_status'.is_spraying = spray_status.is_spraying
           /\ spray_status'.last_command = "REJECTED"
           /\ spray_status'.last_spray_time = spray_status.last_spray_time
           /\ spray_status'.spray_duration = spray_status.spray_duration
           /\ DOMAIN spray_status' = DOMAIN spray_status ]_vars

\* a START was rejected while the pump was spraying, and it still is
C1_Witness ==
    /\ Commanded(StartTokens)
    /\ response.code = 403
    /\ spray_status.is_spraying
    /\ spray_status.last_command = "REJECTED"
    /\ spray_status.spray_duration = Num(10)

\* C2: a STOP whose resolved soil moisture is numeric, inside 40..70 or not,
\* succeeds and leaves is_spraying = false and last_command = STOP.
C2_StopAlwaysStops ==
    (/\ Commanded(StopTokens)
     /\ IsNum(ResolvedMoisture(request.data, latest_sensor_data)))
    => /\ response.code = 200
       /\ response.success
       /\ spray_status.is_spraying = FALSE
       /\ spray_status.last_command = "STOP"

\* a STOP with soil moisture outside the range stopped a pump that had been started
C2_Witness ==
    /\ Commanded(StopTokens)
    /\ request.data.soil_moisture = Num(71)
    /\ response.code = 200
    /\ ~spray_status.is_spraying
    /\ spray_status.last_spray_time # Null

\* C3: a START with numeric resolved moisture m is accepted (spraying, last_command
\* START) exactly when 40 <= m <= 70 and is otherwise rejected with a reason naming
\* the 40-70 range; is_spraying turns true only in such an accepted START.
C3_StartAcceptedIffSafe ==
    /\ [] ((/\ Commanded(StartTokens)
            /\ IsNum(ResolvedMoisture(request.data, latest_sensor_data)))
           => LET m == ResolvedMoisture(request.data, latest_sensor_data).v
                  accepted == /\ response.code = 200
                              /\ response.success
                              /\ spray_status.is_spraying
                              /\ spray_status.last_command = "START"
                  rejected == /\ response.code = 403
                              /\ ~response.success
                              /\ response.reason =
                                     "outside safe range (40-70%). Cannot spray."
                              /\ spray_status.last_command = "REJECTED"
              IN  /\ accepted <=> InRange(m)
                  /\ rejected <=> ~InRange(m))
    /\ [][ (~spray_status.is_spraying /\ spray_status'.is_spraying)
           => /\ Serves("control_spray")
              /\ request'.data.is_object
              /\ request'.data.command \in StartTokens
              /\ LET m == ResolvedMoisture(request'.data, latest_sensor_data)
                 IN  IsNum(m) /\ InRange(m.v) ]_vars

\* a START at the lower end of the range was accepted on the stored moisture
C3_Witness ==
    /\ Commanded(StartTokens)
    /\ request.data.soil_moisture = Absent
    /\ latest_sensor_data.soil_moisture = Num(40)
    /\ response.code = 200
    /\ spray_status.is_spraying

SensorFields == {"temperature", "humidity", "soil_moisture"}

\* C8: an update supplying any subset of the three fields succeeds, stores the
\* supplied values as given and keeps the others, and the next read returns the
\* stored reading.
C8_SensorRoundTrip ==
    /\ [][ (Serves("update_sensors") /\ request'.data.is_object)
           => /\ response'.code = 200
              /\ response'.success
              /\ \A f \in SensorFields :
                    latest_sensor_data'[f] =
                        IF request'.data[f] # Absent
                        THEN request'.data[f]
                        ELSE latest_sensor_data[f] ]_vars
    /\ [][ Serves("get_sensors")
           => /\ response'.code = 200
              /\ \A f \in SensorFields : response'.data[f] = latest_sensor_data[f]
              /\ latest_sensor_data' = latest_sensor_data ]_vars

\* a read returns a humidity outside 0..100 and a moisture outside 40..70 that
\* updates stored, with the temperature no update supplied
C8_Witness ==
    /\ request.endpoint = "get_sensors"
    /\ response.data.humidity = Num(110)
    /\ response.data.soil_moisture = Num(71)
    /\ response.data.temperature = Num(25)

\* C13: a command whose token is neither START nor STOP after case normalisation
\* is answered with an error (400 for a text token or a missing one) and changes
\* nothing: the spray status and the stored sensor reading are as before,
\* whatever moisture and duration the request carries.
C13_InvalidCommandChangesNothing ==
    [][ (/\ Serves("control_spray")
         /\ request'.data.is_object
         /\ request'.data.command \notin StartTokens \cup StopTokens)
        => /\ response'.code \in {400, 500}
           /\ request'.data.command # CmdNumber
              => /\ response'.code = 400
                 /\ response'.error = "Invalid command. Use START or STOP"
           /\ spray_status' = spray_status
           /\ latest_sensor_data' = latest_sensor_data ]_vars

\* PAUSE with a non-numeric moisture and a duration was answered 400 while the
\* pump was spraying, and the status is the one the command found
C13_Witness ==
    /\ request.endpoint = "control_spray"
    /\ request.data.command = "PAUSE"
    /\ request.data.soil_moisture = Str
    /\ request.data.duration = Num(10)
    /\ response.code = 400
    /\ spray_status.is_spraying
    /\ spray_status = request.prior

\* C14: a START or STOP that carries a non-numeric soil moisture or a non-numeric
\* duration is answered with an error and leaves the spray status, the recorded
\* duration included, as it was.
C14_NonNumericInputRejected ==
    [][ (/\ Serves("control_spray")
         /\ request'.data.is_object
         /\ request'.data.command \in StartTokens \cup StopTokens
         /\ (request'.data.soil_moisture = Str \/ request'.data.duration = Str))
        => /\ response'.code \in {400, 500}
           /\ spray_status' = spray_status ]_vars

\* C15: a rejection is not a lock. In every state, a status with last_command
\* REJECTED included, a START whose resolved moisture is a number in 40..70 is
\* accepted and leaves the pump spraying, and a STOP whose resolved moisture is a
\* number is accepted and leaves it not spraying.
C15_RejectionIsNotALock ==
    [][ (/\ Serves("control_spray")
         /\ request'.data.is_object
         /\ IsNum(ResolvedMoisture(request'.data, latest_sensor_data)))
        => LET m == ResolvedMoisture(request'.data, latest_sensor_data).v IN
           /\ (request'.data.command \in StartTokens /\ InRange(m))
              => /\ response'.code = 200
                 /\ spray_status'.is_spraying
                 /\ spray_status'.last_command = "START"
           /\ request'.data.command \in StopTokens
              => /\ response'.code = 200
                 /\ ~spray_status'.is_spraying
                 /\ spray_status'.last_command = "STOP" ]_vars

\* a START was accepted from a status that was REJECTED and not spraying
C15_Witness ==
    /\ Commanded(StartTokens)
    /\ request.prior.last_command = "REJECTED"
    /\ ~request.prior.is_spraying
    /\ response.code = 200
    /\ spray_status.is_spraying
    /\ spray_status.last_command = "START"

\* C16: a START with moisture in 40..70 that finds the pump spraying is accepted:
\* the status stays spraying with last_command START, and the recorded duration
\* and start time are those of the new command: the request's duration, or the
\* default 5 when it gives none, and the time of the command.
C16_RestartRefreshes ==
    [][ (/\ Serves("control_spray")
         /\ request'.data.is_object
         /\ request'.data.command \in StartTokens
         /\ spray_status.is_spraying
         /\ LET m == ResolvedMoisture(request'.data, latest_sensor_data)
            IN  IsNum(m) /\ InRange(m.v))
        => /\ response'.code = 200
           /\ response'.success
           /\ spray_status' =
                  [is_spraying |-> TRUE, last_command |-> "START",
                   last_spray_time |-> Num(now),
                   spray_duration |-> IF request'.data.duration = Absent
                                      THEN Num(5)
                                      ELSE request'.data.duration] ]_vars

\* a pump started at time 0 for 10 seconds was started again at a later time
\* with no duration: the status holds the default duration and the later time
C16_Witness ==
    /\ Commanded(StartTokens)
    /\ request.data.duration = Absent
    /\ request.prior.is_spraying
    /\ request.prior.spray_duration = Num(10)
    /\ request.prior.last_spray_time = Num(0)
    /\ response.code = 200
    /\ spray_status.is_spraying
    /\ spray_status.spray_duration = Num(5)
    /\ spray_status.last_spray_time = Num(1)

\* C17: a START is checked on the request's soil moisture when it carries one and
\* on the stored soil moisture otherwise: an explicit moisture in 40..70 is
\* accepted and one outside is rejected, whatever the stored moisture is.
C17_ExplicitMoistureFirst ==
    Commanded(StartTokens)
    => LET explicit == request.data.soil_moisture
           stored == latest_sensor_data.soil_moisture
       IN  /\ (explicit # Absent /\ IsNum(explicit))
              => /\ (response.code = 200) <=> InRange(explicit.v)
                 /\ (response.code = 403) <=> ~InRange(explicit.v)
                 /\ response.soil_moisture = explicit
           /\ (explicit = Absent /\ IsNum(stored))
              => /\ (response.code = 200) <=> InRange(stored.v)
                 /\ (response.code = 403) <=> ~InRange(stored.v)
                 /\ response.soil_moisture = stored

\* a START with explicit moisture 40 was accepted while the stored moisture is 71
C17_Witness ==
    /\ Commanded(StartTokens)
    /\ request.data.soil_moisture = Num(40)
    /\ latest_sensor_data.soil_moisture = Num(71)
    /\ response.code = 200
    /\ spray_status.is_spraying

\* C18: the spray status changes only in control_spray; update_sensors,
\* get_sensors, analyze_image and get_spray_status leave it as it is;
\* get_spray_status and get_sensors change neither dictionary; and control_spray
\* leaves the stored sensor reading as it is.
C18_StatusFrame ==
    [][ /\ spray_status' # spray_status => Serves("control_spray")
        /\ (\/ Serves("update_sensors") \/ Serves("get_sensors")
            \/ Serves("analyze_image") \/ Serves("get_spray_status"))
           => spray_status' = spray_status
        /\ (Serves("get_sensors") \/ Serves("get_spray_status"))
           => /\ spray_status' = spray_status
              /\ latest_sensor_data' = latest_sensor_data
        /\ Serves("control_spray") => latest_sensor_data' = latest_sensor_data ]_vars

\* an update stored a soil moisture outside the range while the pump was
\* spraying, and it still is
C18_Witness ==
    /\ request.endpoint = "update_sensors"
    /\ request.data.soil_moisture = Num(71)
    /\ latest_sensor_data.soil_moisture = Num(71)
    /\ spray_status.is_spraying
    /\ spray_status.last_command = "START"

\* C21: the outcome of a STOP does not depend on the soil moisture: whatever the
\* request's moisture field is (absent, inside or outside 40..70, null or not a
\* number) and whatever the stored moisture is, the STOP is answered with the
\* same success response and leaves the status not spraying with last_command
\* STOP and its other fields as they were.
C21_StopIgnoresMoisture ==
    [][ (/\ Serves("control_spray")
         /\ request'.data.is_object
         /\ request'.data.command \in StopTokens)
        => /\ response' = [code |-> 200, success |-> TRUE, command |-> "STOP_SPRAY",
                           spray_allowed |-> TRUE]
           /\ spray_status' = [spray_status EXCEPT !.is_spraying = FALSE,
                                                   !.last_command = "STOP"] ]_vars

\* C22: once spraying, the status stays spraying until a STOP is applied:
\* is_spraying turns from true to false only in a STOP command that succeeds, and
\* in no sensor update, START, read, analysis request or passage of time.
C22_SprayingUntilStop ==
    [][ (spray_status.is_spraying /\ ~spray_status'.is_spraying)
        => /\ Serves("control_spray")
           /\ request'.data.is_object
           /\ request'.data.command \in StopTokens
           /\ response'.code = 200 ]_vars

\* the pump is still spraying although an update has stored a soil moisture
\* outside 40..70 and the requested duration of 1 has passed
C22_Witness ==
    /\ request.endpoint = "update_sensors"
    /\ latest_sensor_data.soil_moisture = Num(71)
    /\ spray_status.is_spraying
    /\ spray_status.spray_duration = Num(1)
    /\ spray_status.last_spray_time = Num(0)
    /\ now = 2

\* C23: the status starts not spraying with last_command none, no start time and
\* no duration; then, in every state, last_command is none, START, STOP or
\* REJECTED; START implies spraying; STOP and none imply not spraying; and
\* spraying implies that a start time is recorded and that the duration of the
\* START, as its request gave it or the default, is recorded.
C23_StatusConsistent ==
    /\ spray_status = [is_spraying |-> FALSE, last_command |-> "None",
                       last_spray_time |-> Null, spray_duration |-> Absent]
    /\ [] (/\ DOMAIN spray_status =
                  {"is_spraying", "last_command", "last_spray_time", "spray_duration"}
           /\ spray_status.is_spraying \in BOOLEAN
           /\ spray_status.last_command \in {"None", "START", "STOP", "REJECTED"}
           /\ spray_status.last_command = "START" => spray_status.is_spraying
           /\ spray_status.last_command \in {"STOP", "None"} => ~spray_status.is_spraying
           /\ spray_status.is_spraying
              => /\ IsNum(spray_status.last_spray_time)
                 /\ spray_status.spray_duration # Absent)

\* a status read returns REJECTED with the pump spraying, its start time and
\* duration recorded
C23_Witness ==
    /\ request.endpoint = "get_spray_status"
    /\ response.spray_status.last_command = "REJECTED"
    /\ response.spray_status.is_spraying
    /\ response.spray_status.last_spray_time = Num(1)
    /\ response.spray_status.spray_duration = Num(10)
    /\ spray_status = response.spray_status


(***************************************************************************)
(* Direct calls: the functions of spray_logic.py and model.py, and the    *)
(* decisions of the two handlers, applied to arguments drawn at the start.*)
(***************************************************************************)
PureLevels == (0 - LevelMargin)..(100 + LevelMargin)
PureMoistures == MoistureLo..MoistureHi
PureKeys == {"rice_blast", "healthy", "unknown_disease"}

InitPure ==
    /\ latest_sensor_data = InitSensorData
    /\ spray_status = InitSprayStatus
    /\ now = 0
    /\ request = NoRequest
    /\ response = NoResponse
    /\ call \in [fn : {"none"}, infection_level : PureLevels,
                 soil_moisture : PureMoistures, disease_key : PureKeys]
    /\ threads = [t \in Threads |-> IdleThread]

Called(fn, out) ==
    /\ call' = [fn |-> fn, infection_level |-> call.infection_level,
                soil_moisture |-> call.soil_moisture,
                disease_key |-> call.disease_key, out |-> out]
    /\ UNCHANGED <<latest_sensor_data, spray_status, now, request, response, threads>>

call_calculate_spray_duration ==
    Called("calculate_spray_duration", calculate_spray_duration(call.infection_level))

call_model_calculate_spray_duration ==
    Called("model_calculate_spray_duration",
           model_calculate_spray_duration(call.infection_level))

call_calculate_spray_with_safety ==
    Called("calculate_spray_with_safety",
           calculate_spray_with_safety(call.infection_level, call.soil_moisture))

call_get_recommendation ==
    Called("get_recommendation",
           get_recommendation(call.disease_key, call.infection_level))

\* the decision of control_spray on a START that carries the soil moisture
call_control_spray_effect ==
    Called("control_spray_effect",
           control_spray_effect(
               [is_object |-> TRUE, command |-> "START", duration |-> Absent,
                soil_moisture |-> Num(call.soil_moisture)],
               Get(latest_sensor_data, "soil_moisture", Num(50)), now))

\* the response of analyze_image to a form that carries the soil moisture
call_analyze_image_response ==
    Called("analyze_image_response",
           analyze_image_response(
               [has_image |-> TRUE, soil_moisture |-> Num(call.soil_moisture)],
               Get(latest_sensor_data, "soil_moisture", Num(50)),
               call.disease_key, call.infection_level, now))

NextPure ==
    \/ call_calculate_spray_duration
    \/ call_model_calculate_spray_duration
    \/ call_calculate_spray_with_safety
    \/ call_get_recommendation
    \/ call_control_spray_effect
    \/ call_analyze_image_response

SpecPure == InitPure /\ [][NextPure]_vars

(***************************************************************************)
(* Properties of the direct calls.                                         *)
(***************************************************************************)
Clamp(x) == IF x < 0 THEN 0 ELSE IF x > 100 THEN 100 ELSE x

\* the duration bands of an infection level in 0..100
Band(x) ==
    CASE x = 0 -> 0
      [] x \in 1..24 -> 3
      [] x \in 25..49 -> 5
      [] x \in 50..74 -> 8
      [] x \in 75..100 -> 10

\* C9: both implementations of calculate_spray_duration return the band of the
\* infection level clamped to 0..100: 0, 3, 5, 8 or 10, with 25, 50 and 75 in the
\* upper band.
C9_DurationBands ==
    call.fn \in {"calculate_spray_duration", "model_calculate_spray_duration"}
    => /\ call.out = Band(Clamp(call.infection_level))
       /\ call.out \in {0, 3, 5, 8, 10}

\* the model's implementation puts the boundary 25 in the 5-second band
C9_Witness ==
    /\ call.fn = "model_calculate_spray_duration"
    /\ call.infection_level = 25
    /\ call.out = 5

\* C10: control_spray, analyze_image and calculate_spray_with_safety all find a
\* soil moisture m safe exactly when 40 <= m <= 70, both ends included.
C10_InterlockVerdict ==
    LET m == call.soil_moisture
        safe == 40 <= m /\ m <= 70
    IN  /\ call.fn = "control_spray_effect"
           => /\ (call.out.resp.code = 200) <=> safe
              /\ (call.out.resp.code = 403) <=> ~safe
        /\ call.fn = "analyze_image_response"
           => /\ call.out.moisture_safe <=> safe
              /\ call.out.spray_allowed <=> safe
        /\ call.fn = "calculate_spray_with_safety"
           => (call.out.reason = "Soil moisture outside safe range (40-70%)") <=> ~safe

\* analyze_image finds the upper end, 70, safe
C10_Witness ==
    /\ call.fn = "analyze_image_response"
    /\ call.soil_moisture = 70
    /\ call.out.moisture_safe

\* C11: the recommendation's spray_recommended is true exactly when the infection
\* level x is above 15, whatever the duration band: for x in 1..15 the duration is
\* not zero and spray_recommended is false, and for x <= 0 the duration is 0 and
\* spray_recommended is false.
C11_SprayRecommendedAbove15 ==
    call.fn = "get_recommendation"
    => LET x == call.infection_level IN
       /\ call.out.spray_recommended <=> x > 15
       /\ (x >= 1 /\ x <= 15) => (call.out.spray_duration # 0 /\ ~call.out.spray_recommended)
       /\ x <= 0 => (call.out.spray_duration = 0 /\ ~call.out.spray_recommended)
       /\ x = 20 => (call.out.spray_duration = 3 /\ call.out.spray_recommended)

\* at level 15 the duration is 3 seconds and spraying is not recommended
C11_Witness ==
    /\ call.fn = "get_recommendation"
    /\ call.infection_level = 15
    /\ call.out.spray_duration = 3
    /\ ~call.out.spray_recommended

\* the severity scale: below 10, 10 to below 30, 30 to below 50, 50 and above
SeverityLabel(x) ==
    CASE x < 10 -> "Low"
      [] x >= 10 /\ x < 30 -> "Moderate"
      [] x >= 30 /\ x < 50 -> "High"
      [] x >= 50 -> "Severe"

\* C12: the severity label of level x is Low below 10, Moderate from 10 to below
\* 30, High from 30 to below 50 and Severe from 50 on; it is a function of x alone
\* and does not follow the duration bands (25 is Moderate with duration 5, 50 is
\* Severe with duration 8).
C12_SeverityBands ==
    call.fn = "get_recommendation"
    => LET x == call.infection_level IN
       /\ call.out.severity = SeverityLabel(x)
       /\ x = 25 => (call.out.severity = "Moderate" /\ call.out.spray_duration = 5)
       /\ x = 50 => (call.out.severity = "Severe" /\ call.out.spray_duration = 8)

\* level 30 is High, in the same duration band as the Moderate level 25
C12_Witness ==
    /\ call.fn = "get_recommendation"
    /\ call.infection_level = 30
    /\ call.out.severity = "High"
    /\ call.out.spray_duration = 5

\* C19: get_recommendation returns a recommendation for every disease key: the
\* name, pesticide, dosage and description of the key's entry when the table holds
\* the key, those of the 'healthy' entry otherwise; the severity, the duration
\* and spray_recommended are those of the infection level, whatever the key.
C19_UnknownKeyFallsBackToHealthy ==
    call.fn = "get_recommendation"
    => LET x == call.infection_level
           out == call.out
       IN  /\ call.disease_key = "rice_blast"
              => /\ out.disease_name = "Rice Blast"
                 /\ out.pesticide = "Tricyclazole 75% WP"
                 /\ out.dosage = "1g per liter of water"
                 /\ out.description = "Pyricularia oryzae causing diamond-shaped lesions"
           /\ call.disease_key \notin {"wheat_brown_rust", "tomato_early_blight",
                                       "rice_blast", "potato_late_blight"}
              => /\ out.disease_name = "Healthy Plant"
                 /\ out.pesticide = "None required"
                 /\ out.dosage = "N/A"
                 /\ out.description = "No disease detected"
           /\ out.severity = SeverityLabel(x)
           /\ out.spray_duration = Band(Clamp(x))
           /\ out.spray_recommended <=> x > 15
           /\ out.infection_level = x

\* a key the table does not hold gets the healthy entry with a Severe level
C19_Witness ==
    /\ call.fn = "get_recommendation"
    /\ call.disease_key = "unknown_disease"
    /\ call.infection_level = 85
    /\ call.out.disease_name = "Healthy Plant"
    /\ call.out.severity = "Severe"
    /\ call.out.spray_recommended

\* C20: calculate_spray_with_safety allows the spray exactly when 40 <= m <= 70
\* and x > 0; an allowed spray has the duration of calculate_spray_duration(x),
\* one of 3, 5, 8, 10; a refused one has duration 0; and a moisture outside the
\* range gives the moisture reason, for x <= 0 too.
C20_SafetyDecision ==
    call.fn = "calculate_spray_with_safety"
    => LET x == call.infection_level
           m == call.soil_moisture
           out == call.out
       IN  /\ out.spray_allowed <=> (40 <= m /\ m <= 70 /\ x > 0)
           /\ out.spray_allowed
              => /\ out.duration = Band(Clamp(x))
                 /\ out.duration \in {3, 5, 8, 10}
           /\ ~out.spray_allowed => out.duration = 0
           /\ (m < 40 \/ m > 70)
              => out.reason = "Soil moisture outside safe range (40-70%)"
           /\ (40 <= m /\ m <= 70 /\ x <= 0)
              => out.reason = "No infection detected - no spray needed"

\* no infection and a moisture above the range: the moisture reason is given
C20_Witness ==
    /\ call.fn = "calculate_spray_with_safety"
    /\ call.infection_level = 0
    /\ call.soil_moisture = 71
    /\ ~call.out.spray_allowed
    /\ call.out.reason = "Soil moisture outside safe range (40-70%)"


(***************************************************************************)
(* Concurrent processing.  app.run (line 303) serves each request in its  *)
(* own thread and the handlers take no lock, so the threads interleave    *)
(* between their accesses to the two dictionaries.  One step is one       *)
(* access: a subscript read, a dictionary update() or item assignment     *)
(* (one call into the interpreter, which no other thread interrupts), or  *)
(* the serialisation of a dictionary by jsonify (its items are copied in  *)
(* one call before they are encoded).  What a handler computes on its own *)
(* values belongs to the step of the access that follows it; so does the  *)
(* datetime.now() that a written dictionary holds.  The requests race     *)
(* within one reading of the clock: time does not pass here.              *)
(***************************************************************************)
ConcControlBodies ==
    [is_object : {TRUE}, command : {"START"}, duration : {Absent, Num(10)},
     soil_moisture : {Absent, Num(39)}]
    \cup {[is_object |-> TRUE, command |-> "STOP", duration |-> Absent,
           soil_moisture |-> Absent]}

\* partial updates: the temperature, the humidity or the soil moisture alone
ConcSensorBodies ==
    {[is_object |-> TRUE, temperature |-> Num(30), humidity |-> Absent,
      soil_moisture |-> Absent],
     [is_object |-> TRUE, temperature |-> Absent, humidity |-> Num(110),
      soil_moisture |-> Absent],
     [is_object |-> TRUE, temperature |-> Absent, humidity |-> Absent,
      soil_moisture |-> Num(71)]}

At(t, pc) == threads[t].pc = pc

Goto(t, pc, req, local, resp) ==
    threads' = [threads EXCEPT ![t] = [pc |-> pc, req |-> req, local |-> local,
                                       resp |-> resp]]

\* control_spray lines 226-229: the body is parsed and the stored moisture read
cs_read(t) ==
    /\ At(t, "idle")
    /\ \E data \in ConcControlBodies :
        Goto(t, "cs_write", [endpoint |-> "control_spray", data |-> data],
             [live |-> Get(latest_sensor_data, "soil_moisture", Num(50))],
             NoResponse)
    /\ UNCHANGED <<latest_sensor_data, spray_status, now, request, response, call>>

\* the keys of spray_status written one step at a time: is_spraying and
\* last_command first, the time and the duration after
cs_write_by_key(t) ==
    LET e == control_spray_effect(threads[t].req.data, threads[t].local.live, now)
        first == {"is_spraying", "last_command"} \cap DOMAIN e.write
    IN  \/ /\ At(t, "cs_write")
           /\ spray_status' = DictUpdate(spray_status, [key \in first |-> e.write[key]])
           /\ Goto(t, "cs_write_rest", threads[t].req, threads[t].local, NoResponse)
           /\ UNCHANGED <<latest_sensor_data, now, request, response, call>>
        \/ /\ At(t, "cs_write_rest")
           /\ spray_status' = DictUpdate(spray_status, e.write)
           /\ Goto(t, "done", threads[t].req, threads[t].local, e.resp)
           /\ UNCHANGED <<latest_sensor_data, now, request, response, call>>

\* control_spray lines 231-276: the decision on the moisture read before, and
\* the one write to spray_status (line 239, lines 249-254 or lines 266-269)
cs_write(t) ==
    /\ At(t, "cs_write")
    /\ LET e == control_spray_effect(threads[t].req.data, threads[t].local.live, now)
       IN  /\ spray_status' = DictUpdate(spray_status, e.write)
           /\ Goto(t, "done", threads[t].req, threads[t].local, e.resp)
    /\ UNCHANGED <<latest_sensor_data, now, request, response, call>>

\* update_sensors line 192: latest_sensor_data['temperature'] is read
us_read_temperature(t) ==
    /\ At(t, "idle")
    /\ \E data \in ConcSensorBodies :
        Goto(t, "us_read_humidity", [endpoint |-> "update_sensors", data |-> data],
             [temperature |-> latest_sensor_data.temperature], NoResponse)
    /\ UNCHANGED <<latest_sensor_data, spray_status, now, request, response, call>>

\* line 193
us_read_humidity(t) ==
    /\ At(t, "us_read_humidity")
    /\ Goto(t, "us_read_soil_moisture", threads[t].req,
            [temperature |-> threads[t].local.temperature,
             humidity |-> latest_sensor_data.humidity], NoResponse)
    /\ UNCHANGED <<latest_sensor_data, spray_status, now, request, response, call>>

\* line 194
us_read_soil_moisture(t) ==
    /\ At(t, "us_read_soil_moisture")
    /\ Goto(t, "us_write", threads[t].req,
            [temperature |-> threads[t].local.temperature,
             humidity |-> threads[t].local.humidity,
             soil_moisture |-> latest_sensor_data.soil_moisture], NoResponse)
    /\ UNCHANGED <<latest_sensor_data, spray_status, now, request, response, call>>

\* lines 191-196: update() writes the four keys, with the values read before for
\* the fields the request does not hold
us_write(t) ==
    /\ At(t, "us_write")
    /\ latest_sensor_data' =
           DictUpdate(latest_sensor_data,
                      update_sensors_write(threads[t].req.data, threads[t].local, now))
    /\ Goto(t, "us_respond", threads[t].req, NoLocal, NoResponse)
    /\ UNCHANGED <<spray_status, now, request, response, call>>

\* lines 198-202: the dictionary is serialised into the response
us_respond(t) ==
    /\ At(t, "us_respond")
    /\ Goto(t, "done", threads[t].req, NoLocal,
            update_sensors_response(threads[t].req.data, latest_sensor_data))
    /\ UNCHANGED <<latest_sensor_data, spray_status, now, request, response, call>>

\* the fields serialised one step at a time: the temperature first
gs_serialize_by_field(t) ==
    \/ /\ At(t, "idle")
       /\ Goto(t, "gs_rest", [endpoint |-> "get_sensors"],
               [temperature |-> latest_sensor_data.temperature], NoResponse)
       /\ UNCHANGED <<latest_sensor_data, spray_status, now, request, response, call>>
    \/ /\ At(t, "gs_rest")
       /\ Goto(t, "done", threads[t].req, NoLocal,
               get_sensors_response(
                   [latest_sensor_data EXCEPT
                       !.temperature = threads[t].local.temperature]))
       /\ UNCHANGED <<latest_sensor_data, spray_status, now, request, response, call>>

\* get_sensors lines 170-173: the dictionary is serialised into the response
gs_serialize(t) ==
    /\ At(t, "idle")
    /\ Goto(t, "done", [endpoint |-> "get_sensors"], NoLocal,
            get_sensors_response(latest_sensor_data))
    /\ UNCHANGED <<latest_sensor_data, spray_status, now, request, response, call>>

\* get_spray_status lines 285-288
gss_serialize(t) ==
    /\ At(t, "idle")
    /\ Goto(t, "done", [endpoint |-> "get_spray_status"], NoLocal,
            get_spray_status_response(spray_status))
    /\ UNCHANGED <<latest_sensor_data, spray_status, now, request, response, call>>

ConcAnalyzeForm == [has_image |-> TRUE, soil_moisture |-> Absent]

\* analyze_image line 104: the stored moisture is read
ai_read(t) ==
    /\ At(t, "idle")
    /\ Goto(t, "ai_respond",
            [endpoint |-> "analyze_image", form |-> ConcAnalyzeForm,
             disease_key |-> "rice_blast", infection_level |-> 85],
            [live |-> Get(latest_sensor_data, "soil_moisture", Num(50))], NoResponse)
    /\ UNCHANGED <<latest_sensor_data, spray_status, now, request, response, call>>

\* lines 106-161: the prediction, the recommendation and the response
ai_respond(t) ==
    /\ At(t, "ai_respond")
    /\ Goto(t, "done", threads[t].req, threads[t].local,
            analyze_image_response(threads[t].req.form, threads[t].local.live,
                                   threads[t].req.disease_key,
                                   threads[t].req.infection_level, now))
    /\ UNCHANGED <<latest_sensor_data, spray_status, now, request, response, call>>

\* the response is sent and the thread takes another request
Return(t) ==
    /\ At(t, "done")
    /\ threads' = [threads EXCEPT ![t] = IdleThread]
    /\ UNCHANGED <<latest_sensor_data, spray_status, now, request, response, call>>

NextConc ==
    \E t \in Threads :
        \/ cs_read(t)
        \/ cs_write(t)
        \/ us_read_temperature(t)
        \/ us_read_humidity(t)
        \/ us_read_soil_moisture(t)
        \/ us_write(t)
        \/ us_respond(t)
        \/ gs_serialize(t)
        \/ gss_serialize(t)
        \/ ai_read(t)
        \/ ai_respond(t)
        \/ Return(t)

SpecConc == Init /\ [][NextConc]_vars


(***************************************************************************)
(* Properties of the concurrent specification.                             *)
(***************************************************************************)
\* thread t finishes a request of the endpoint in this step
Finishes(t, endpoint) ==
    /\ threads[t].pc # "done"
    /\ threads'[t].pc = "done"
    /\ threads'[t].req.endpoint = endpoint

StoredMoistureSafe ==
    /\ IsNum(latest_sensor_data.soil_moisture)
    /\ InRange(latest_sensor_data.soil_moisture.v)

\* C4: a START without explicit moisture never sets the status to spraying at a
\* moment when the stored soil moisture is outside 40..70.
C4_StartAtomicWithSensors ==
    [][ \A t \in Threads :
          (/\ Finishes(t, "control_spray")
           /\ threads[t].req.data.command \in StartTokens
           /\ threads[t].req.data.soil_moisture = Absent
           /\ threads'[t].resp.code = 200
           /\ spray_status'.is_spraying)
          => StoredMoistureSafe ]_vars

\* the result of one command applied to a status as a whole: m is the moisture
\* the command checked and ts the time it read
CommandResult(status, data, m, ts) ==
    IF data.command \in StopTokens
    THEN [is_spraying |-> FALSE, last_command |-> "STOP",
          last_spray_time |-> status.last_spray_time,
          spray_duration |-> status.spray_duration]
    ELSE IF InRange(m)
    THEN [is_spraying |-> TRUE, last_command |-> "START",
          last_spray_time |-> Num(ts),
          spray_duration |-> IF data.duration = Absent THEN Num(5) ELSE data.duration]
    ELSE [is_spraying |-> status.is_spraying, last_command |-> "REJECTED",
          last_spray_time |-> status.last_spray_time,
          spray_duration |-> status.spray_duration]

\* C5: commands are linearizable. Each command takes effect in one step, in which
\* the status becomes the result of that command applied as a whole to the status
\* of that moment; the status changes in no other step; and get_spray_status
\* returns the status of one moment.
C5_CommandsLinearizable ==
    [][ /\ \A t \in Threads :
              Finishes(t, "control_spray")
              => spray_status' =
                     CommandResult(spray_status, threads[t].req.data,
                                   ResolvedMoisture(
                                       threads[t].req.data,
                                       [soil_moisture |-> threads[t].local.live]).v,
                                   now)
        /\ spray_status' # spray_status
           => \E t \in Threads : Finishes(t, "control_spray")
        /\ \A t \in Threads :
              Finishes(t, "get_spray_status")
              => threads'[t].resp.spray_status = spray_status ]_vars

\* a START and a STOP are both served, the STOP last, while the other thread's
\* START had read its moisture before the STOP wrote
C5_Witness ==
    /\ threads["t1"].pc = "done"
    /\ threads["t1"].req.endpoint = "control_spray"
    /\ threads["t1"].req.data.command = "START"
    /\ threads["t1"].resp.code = 200
    /\ threads["t2"].pc = "done"
    /\ threads["t2"].req.endpoint = "control_spray"
    /\ threads["t2"].req.data.command = "STOP"
    /\ spray_status = [is_spraying |-> FALSE, last_command |-> "STOP",
                       last_spray_time |-> Num(0), spray_duration |-> Num(10)]

\* thread t has finished an update that holds field f alone
UpdatedOnly(t, f) ==
    /\ threads[t].pc = "done"
    /\ threads[t].req.endpoint = "update_sensors"
    /\ \A g \in SensorFields : (threads[t].req.data[g] # Absent) <=> (g = f)

\* C6: after two concurrent updates, one of the temperature alone and one of the
\* humidity alone, the stored reading holds both values.
C6_NoLostSensorUpdate ==
    \A t, u \in Threads :
        (UpdatedOnly(t, "temperature") /\ UpdatedOnly(u, "humidity"))
        => /\ latest_sensor_data.temperature = threads[t].req.data.temperature
           /\ latest_sensor_data.humidity = threads[u].req.data.humidity

\* C7: no torn sensor read. get_sensors returns the whole stored reading of one
\* moment, control_spray and analyze_image read the stored soil moisture of one
\* moment, and an update moves the stored reading to its new value in one step.
C7_NoTornSensorRead ==
    [][ /\ \A t \in Threads :
              Finishes(t, "get_sensors")
              => threads'[t].resp.data = latest_sensor_data
        /\ \A t \in Threads :
              (threads[t].pc = "idle"
               /\ threads'[t].req.endpoint \in {"control_spray", "analyze_image"})
              => threads'[t].local.live = latest_sensor_data.soil_moisture
        /\ latest_sensor_data' # latest_sensor_data
           => \E t \in Threads :
                 /\ threads[t].pc = "us_write"
                 /\ threads'[t].pc = "us_respond"
                 /\ \A f \in SensorFields :
                       threads[t].req.data[f] # Absent
                       => latest_sensor_data'[f] = threads[t].req.data[f] ]_vars

\* a read was served while an update of the temperature had read the stored
\* values and not yet written
C7_Witness ==
    /\ threads["t1"].pc = "done"
    /\ threads["t1"].req.endpoint = "get_sensors"
    /\ threads["t1"].resp.data.temperature = Num(25)
    /\ threads["t1"].resp.data.humidity = Num(110)
    /\ threads["t2"].pc = "us_write"
    /\ threads["t2"].req.data.temperature = Num(30)

====
